---- MODULE Spec2Model ----
(***************************************************************************)
(* A model of server.py (APX AI backend): the chat endpoint's context      *)
(* assembly, response resolution and persistence, the contact endpoint and *)
(* the health endpoint.                                                    *)
(*                                                                         *)
(* Strings are sequences of tokens (a token stands for a run of            *)
(* characters; " " is a run of whitespace).  Dynamically typed Python      *)
(* values are records [t, s]: t is the type tag, s the tokens of a str.    *)
(* Timestamps are sequences of character codes, compared as the store      *)
(* compares strings.                                                       *)
(***************************************************************************)
EXTENDS Integers, Sequences, FiniteSets, TLC

\* ------------------------------------------------------------------ bounds
\* Generation calls (each one advances the clock) in a run of Spec, of SpecWindow.
MaxClock == 1
MaxWindowClock == 7
\* Documents the store starts with in SpecCtx.
MaxDocs == 6
\* Contact forms stored in a run of Spec.
MaxContacts == 1

\* --------------------------------------------------------- program constants
HistoryLimit == 5

\* ------------------------------------------------------------ Python values
PyNone == [t |-> "none", s |-> <<>>]
PyStr(s) == [t |-> "str", s |-> s]
PyObj == [t |-> "obj", s |-> <<>>]

\* Python truthiness: None and "" are falsy, any other str or object is truthy.
Truthy(v) == CASE v.t = "none" -> FALSE
               [] v.t = "str" -> v.s # <<>>
               [] OTHER -> TRUE

\* a or b
PyOr(a, b) == IF Truthy(a) THEN a ELSE b

\* The text an f-string puts for {v}.
Fmt(v) == CASE v.t = "str" -> v.s
            [] v.t = "none" -> <<"None">>
            [] OTHER -> <<"{obj}">>

IsSpace(c) == c = " "

RECURSIVE LStrip(_)
LStrip(s) == IF s # <<>> /\ IsSpace(Head(s)) THEN LStrip(Tail(s)) ELSE s

RECURSIVE RStrip(_)
RStrip(s) == IF s # <<>> /\ IsSpace(s[Len(s)]) THEN RStrip(SubSeq(s, 1, Len(s) - 1)) ELSE s

\* str.strip()
Strip(s) == RStrip(LStrip(s))

\* ---------------------------------------------------------------- timestamps
\* The clock counts half seconds within one minute.
Seconds(t) == t \div 2
Micros(t) == (t % 2) * 500000

Digit(n) == 48 + n

\* n as w decimal digits, zero padded.
RECURSIVE Digits(_, _)
Digits(n, w) == IF w = 0 THEN <<>> ELSE Append(Digits(n \div 10, w - 1), Digit(n % 10))

\* datetime.isoformat() from the seconds on ("SS[.ffffff]+", the date, hour and
\* minute before it and the "00:00" after it being the same in every timestamp):
\* the fraction is left out when the microsecond is 0.
IsoFormat(t) == Digits(Seconds(t), 2)
                \o (IF Micros(t) = 0 THEN <<>> ELSE <<46>> \o Digits(Micros(t), 6))
                \o <<43>>

\* The store's order on strings: by character code at the first place where
\* they differ, a proper prefix first.
StrLess(a, b) ==
    LET n == IF Len(a) < Len(b) THEN Len(a) ELSE Len(b)
        differ == {i \in 1..n : a[i] # b[i]}
    IN  IF differ = {} THEN Len(a) < Len(b)
        ELSE LET k == CHOOSE i \in differ : \A j \in differ : i <= j
             IN  a[k] < b[k]

\* ------------------------------------------------------------- conversation store
\* find({"conversation_id": cid}): the places of the matching documents.
FindMongo(st, cid) == {i \in 1..Len(st) : st[i].conversation_id = cid}

\* The documents no other of S exceeds in timestamp.
Greatest(st, S) == {i \in S : \A j \in S : ~StrLess(st[i].timestamp, st[j].timestamp)}

\* sort("timestamp", -1).limit(n): every list of documents the cursor may
\* yield, the greatest timestamp first, documents of equal timestamps in any
\* order.
RECURSIVE SortLimit(_, _, _)
SortLimit(st, S, n) ==
    IF S = {} \/ n = 0 THEN {<<>>}
    ELSE UNION {{<<d>> \o r : r \in SortLimit(st, S \ {CHOOSE i \in Greatest(st, S) : st[i] = d}, n - 1)} :
                   d \in {st[i] : i \in Greatest(st, S)}}

\* The list left as the cursor yields it, newest first.
NotReversed(r) == r

\* list.reverse()
Reverse(r) == [i \in 1..Len(r) |-> r[Len(r) + 1 - i]]

\* Lines 102-104: every list past_messages may hold after the read.
ReadHistory(st, cid) == {Reverse(r) : r \in SortLimit(st, FindMongo(st, cid), HistoryLimit)}

\* --------------------------------------------------------------- context builder
system_prompt == <<"You are APX AI">>

\* h.get(k): None for a key the document lacks.
GetWithoutDefault(h, k) == IF k \in DOMAIN h THEN h[k] ELSE PyNone

\* h.get(k, '')
Get(h, k) == IF k \in DOMAIN h THEN h[k] ELSE PyStr(<<>>)

UserLine(v) == <<"User: ">> \o Fmt(v)
AiLine(v) == <<"APX AI: ">> \o Fmt(v)

\* Lines 108-110: the loop over past_messages.
RECURSIVE AppendHistory(_, _)
AppendHistory(ctx, past) ==
    IF past = <<>> THEN ctx
    ELSE AppendHistory(Append(Append(ctx, UserLine(Get(Head(past), "user_message"))),
                              AiLine(Get(Head(past), "ai_response"))),
                       Tail(past))

\* Lines 107-112
BuildContext(past, message) == Append(AppendHistory(<<system_prompt>>, past), UserLine(PyStr(message)))

\* ------------------------------------------------------------ response resolver
DefaultText == <<"Please describe the emergency.">>

\* A generation result: text is absent (no such attribute), raises (the accessor
\* raises something other than AttributeError) or a value; candidates is absent,
\* an empty list, or a list whose first element is an object without .get or a
\* dict (a key it lacks reads as None, as dict.get gives).
TextAbsent == [k |-> "absent", v |-> PyNone]
TextRaises == [k |-> "raises", v |-> PyNone]
TextValue(v) == [k |-> "value", v |-> v]

NoCandidate == [dict |-> FALSE, content |-> PyNone, output |-> PyNone]
CandObject == [k |-> "list", first |-> NoCandidate]
CandDict(c, o) == [k |-> "list", first |-> [dict |-> TRUE, content |-> c, output |-> o]]
CandAbsent == [k |-> "absent", first |-> NoCandidate]
CandEmpty == [k |-> "empty", first |-> NoCandidate]

\* str(first) of a dict: never empty.
StrOfCandidate == PyStr(<<"{candidate}">>)

Raised == [raised |-> TRUE, ai_text |-> PyNone]
Resolved(v) == [raised |-> FALSE, ai_text |-> v]

\* Lines 128-133: the candidates probe; an exception inside it leaves None.
ProbeCandidates(c) ==
    IF c.k = "list"
    THEN IF c.first.dict
         THEN PyOr(PyOr(c.first.content, c.first.output), StrOfCandidate)
         ELSE PyNone
    ELSE PyNone

\* Lines 135-136
OrDefault(v) == IF ~Truthy(v) THEN PyStr(DefaultText) ELSE v

\* Lines 121-136.  hasattr() lets any exception but AttributeError through, and
\* .strip() of a value that is no str raises outside the inner try.
ResolveText(resp) ==
    IF resp.text.k = "raises" THEN Raised
    ELSE IF resp.text.k = "value" /\ Truthy(resp.text.v)
         THEN IF resp.text.v.t = "str"
              THEN Resolved(OrDefault(PyStr(Strip(resp.text.v.s))))
              ELSE Raised
         ELSE Resolved(OrDefault(ProbeCandidates(resp.candidates)))

\* -------------------------------------------------------------------- state
VARIABLES
    db,              \* the store handle of lines 54-60: "present" or "none"
    GEMINI_API_KEY,  \* whether a key is configured (line 35)
    store,           \* db.conversations, in insertion order
    contact_queries, \* db.contact_queries: how many forms it holds
    now,             \* the clock datetime.now() reads
    req              \* the requests in flight, one per slot

vars == <<db, GEMINI_API_KEY, store, contact_queries, now, req>>

Slots == {1, 2}

NoBody == [response |-> <<>>, conversation_id |-> <<>>, detail |-> <<>>, message |-> <<>>]

\* A slot's record: the handler's locals that outlive a step (message ..
\* timestamp; resp is used up within the step that gets it), the exception it
\* caught (err), the HTTP reply (status, body), and history variables: ops (the
\* calls made, in order), commits and docAt (the inserts of this request that the
\* store applied, and where), seen (the documents whose requests had replied when
\* this one arrived), readLen (the length of the store when it was read).  The
\* context stays on record as what generate_content was called with.
Idle == [kind |-> "none", pc |-> "idle", message |-> <<>>, cid_in |-> PyNone,
         conversation_id |-> <<>>, past_messages |-> <<>>, conversation_context |-> <<>>,
         ai_text |-> PyNone, timestamp |-> <<>>, err |-> "none",
         status |-> 0, body |-> NoBody, ops |-> <<>>, commits |-> 0, docAt |-> 0,
         seen |-> {}, readLen |-> 0]

\* Lines 147-151: the handler returns or raises, and the history it read goes
\* with it.
Returned(r) == [r EXCEPT !.past_messages = <<>>, !.seen = {}, !.readLen = 0]

\* Line 151: the reply to whatever was caught, the same for every exception.
ChatError(e) == [NoBody EXCEPT !.detail = <<"AI service unavailable.">>]

\* A handler that calls generate_content again when it raised.
FailOrRetry(r, cause, e) ==
    IF cause = "generate" /\ Len(r.ops) < 4
    THEN [r EXCEPT !.pc = "ready"]
    ELSE [Returned(r) EXCEPT !.pc = "failed", !.err = cause, !.status = 500,
                             !.body = [response |-> <<>>, conversation_id |-> <<>>,
                                       detail |-> <<"AI service unavailable.">>, message |-> <<>>]]

\* Lines 149-151
Fail(r, cause, e) ==
    [Returned(r) EXCEPT !.pc = "failed", !.err = cause, !.status = 500, !.body = ChatError(e)]

\* Line 89
ResolveId(cid_in, uuid) == PyOr(cid_in, PyStr(uuid)).s

\* Lines 88-102: the request arrives; with a store handle the find is issued.
Arrive(message, cid_in, uuid, handle, replied) ==
    [Idle EXCEPT !.kind = "chat", !.message = message, !.cid_in = cid_in,
                 !.conversation_id = ResolveId(cid_in, uuid), !.seen = replied,
                 !.pc = IF handle = "present" THEN "reading" ELSE "ready",
                 !.ops = IF handle = "present" THEN <<"read">> ELSE <<>>]

\* Lines 103-104: the find's result reaches the handler.
GotHistory(r, past, len) == [r EXCEPT !.pc = "ready", !.past_messages = past, !.readLen = len]

\* Line 147: ChatResponse validates response as a str.
Reply(r) ==
    IF r.ai_text.t = "str"
    THEN [Returned(r) EXCEPT !.pc = "responded", !.status = 200,
                             !.body = [NoBody EXCEPT !.response = r.ai_text.s,
                                                     !.conversation_id = r.conversation_id]]
    ELSE Fail(r, "validate", "ValidationError")

\* A handler that replies without storing the turn.
ReplyUnstored(r, handle, t) == Reply(r)

\* Lines 139-145: with a store handle the insert is issued, stamped with the clock.
Persist(r, handle, t) ==
    IF handle = "present"
    THEN [r EXCEPT !.pc = "writing", !.timestamp = IsoFormat(t), !.ops = @ \o <<"write">>]
    ELSE Reply(r)

\* Lines 120-147, from the generation's result on.
Resolve(r, resp, handle, t) ==
    LET res == ResolveText(resp)
    IN  IF res.raised
        THEN Fail(r, "resolve", "AttributeError")
        ELSE Persist([r EXCEPT !.ai_text = res.ai_text], handle, t)

\* Lines 107-118: the context is built and handed to generate_content.
Called(r) == [r EXCEPT !.conversation_context = BuildContext(r.past_messages, r.message),
                       !.ops = @ \o <<"generate">>]

\* Lines 140-145: the document of the insert.
Turn(r) == [conversation_id |-> r.conversation_id, user_message |-> PyStr(r.message),
            ai_response |-> r.ai_text, timestamp |-> r.timestamp]

\* The documents whose requests have replied: all but those a handler has still
\* to resume from.
Replied == (1..Len(store)) \ {req[o].docAt : o \in {x \in Slots : req[x].pc = "written"}}

\* Chat requests that have still to call generate_content.
Waiting == {o \in Slots : req[o].pc \in {"reading", "ready"}}

\* ------------------------------------------------------------------ actions
\* The requests that sent message m and have not stored a turn.
Unstored(m) == {o \in Slots : req[o].kind = "chat" /\ req[o].message = m /\ req[o].commits = 0}

\* How often message m has been sent, as far as the state tells.
Sent(m) == Cardinality({i \in 1..Len(store) : store[i].user_message = PyStr(m)})
           + Cardinality(Unstored(m))

\* A slot takes a request when it holds none or the reply of an earlier one.
Free(s) == req[s].pc \in {"idle", "responded", "failed"}

\* POST /api/chat arrives, at the first free slot.  A message of once is sent
\* at most once in a run, so that its turn can be told from every other.
Start(s, messages, once, cids, uuids, maxClock) ==
    /\ Free(s)
    /\ \A o \in Slots : o < s => ~Free(o)
    /\ now + Cardinality(Waiting) < maxClock
    /\ \E m \in messages, c \in cids, u \in uuids :
          /\ m \in once => Sent(m) = 0
          /\ req' = [req EXCEPT ![s] = Arrive(m, c, u, db, Replied)]
    /\ UNCHANGED <<db, GEMINI_API_KEY, store, contact_queries, now>>

\* The store answers the find.
Read(s) ==
    /\ req[s].pc = "reading"
    /\ \E past \in ReadHistory(store, req[s].conversation_id) :
          req' = [req EXCEPT ![s] = GotHistory(req[s], past, Len(store))]
    /\ UNCHANGED <<db, GEMINI_API_KEY, store, contact_queries, now>>

\* The find raises (the store cannot be reached).
ReadFail(s) ==
    /\ req[s].pc = "reading"
    /\ req' = [req EXCEPT ![s] = Fail(req[s], "read", "ServerSelectionTimeoutError")]
    /\ UNCHANGED <<db, GEMINI_API_KEY, store, contact_queries, now>>

\* generate_content returns; the text is resolved and the insert issued.  The
\* call blocks, so the clock read after it is later than any read before it.
Generate(s, shapes) ==
    /\ req[s].pc = "ready"
    /\ GEMINI_API_KEY
    /\ now' = now + 1
    /\ \E resp \in shapes :
          req' = [req EXCEPT ![s] = Resolve(Called(req[s]), resp, db, now')]
    /\ UNCHANGED <<db, GEMINI_API_KEY, store, contact_queries>>

\* generate_content raises.
GenerateFail(s, errors) ==
    /\ req[s].pc = "ready"
    /\ now' = now + 1
    /\ \E e \in errors :
          req' = [req EXCEPT ![s] = Fail(Called(req[s]), "generate", e)]
    /\ UNCHANGED <<db, GEMINI_API_KEY, store, contact_queries>>

\* The store applies the insert.
Commit(s) ==
    /\ req[s].pc = "writing"
    /\ store' = Append(store, Turn(req[s]))
    /\ req' = [req EXCEPT ![s] = [req[s] EXCEPT !.pc = "written", !.commits = @ + 1,
                                                !.docAt = Len(store) + 1]]
    /\ UNCHANGED <<db, GEMINI_API_KEY, contact_queries, now>>

\* The insert raises.
WriteFail(s) ==
    /\ req[s].pc = "writing"
    /\ req' = [req EXCEPT ![s] = Fail(req[s], "write", "AutoReconnect")]
    /\ UNCHANGED <<db, GEMINI_API_KEY, store, contact_queries, now>>

\* The handler resumes after the insert and returns.
Respond(s) ==
    /\ req[s].pc = "written"
    /\ req' = [req EXCEPT ![s] = Reply(req[s])]
    /\ UNCHANGED <<db, GEMINI_API_KEY, store, contact_queries, now>>

\* --------------------------------------------------------- the other endpoints
\* Lines 193-195: the health check's reply to an exception carries its text.
HealthError(e) == [NoBody EXCEPT !.message = <<"Gemini Check Failed: ", e>>]

\* Lines 191-192: the health check's reply to a generation result.
HealthReply(resp) ==
    IF resp.text.k = "raises" THEN HealthError("ValueError")
    ELSE LET text == IF resp.text.k = "value" THEN resp.text.v ELSE PyNone
         IN  IF ~Truthy(text) /\ resp.candidates.k = "list" /\ ~resp.candidates.first.dict
             THEN HealthError("AttributeError")
             ELSE LET found == IF Truthy(text) THEN text
                               ELSE IF resp.candidates.k = "list"
                                    THEN resp.candidates.first.content
                                    ELSE PyNone
                      shown == PyOr(found, PyStr(<<"No text returned">>))
                  IN  IF shown.t = "str"
                      THEN [NoBody EXCEPT !.message = Strip(shown.s)]
                      ELSE HealthError("AttributeError")

Answered(status, body) == [Idle EXCEPT !.kind = "other", !.pc = "responded",
                                       !.status = status, !.body = body]

\* GET / (lines 182-195)
Root(s, shapes, errors) ==
    /\ Free(s)
    /\ \/ /\ ~GEMINI_API_KEY
          /\ req' = [req EXCEPT ![s] = Answered(200,
                        [NoBody EXCEPT !.message = <<"Gemini Check Failed: GEMINI_API_KEY not set.">>])]
       \/ /\ GEMINI_API_KEY
          /\ \E resp \in shapes : req' = [req EXCEPT ![s] = Answered(200, HealthReply(resp))]
       \/ /\ GEMINI_API_KEY
          /\ \E e \in errors : req' = [req EXCEPT ![s] = Answered(200, HealthError(e))]
    /\ UNCHANGED <<db, GEMINI_API_KEY, store, contact_queries, now>>

\* POST /api/contact (lines 156-173)
Contact(s) ==
    /\ Free(s)
    /\ \/ /\ db = "none"
          /\ req' = [req EXCEPT ![s] = Answered(200, [NoBody EXCEPT !.message =
                        <<"Thank you! We'll get back to you soon (note: DB unavailable).">>])]
          /\ UNCHANGED contact_queries
       \/ /\ db = "present"
          /\ contact_queries < MaxContacts
          /\ contact_queries' = contact_queries + 1
          /\ req' = [req EXCEPT ![s] = Answered(200, [NoBody EXCEPT !.message =
                        <<"Thank you! We'll get back to you soon.">>])]
       \/ /\ db = "present"
          /\ req' = [req EXCEPT ![s] = Answered(500, [NoBody EXCEPT !.detail =
                        <<"Failed to submit contact form.">>])]
          /\ UNCHANGED contact_queries
    /\ UNCHANGED <<db, GEMINI_API_KEY, store, now>>

\* ------------------------------------------------------------------- inputs
Messages == {<<"m1">>}
WindowMessages == {<<"m1">>, <<"m2">>}
MarkedMessages == {<<"m2">>}
CidInputs == {PyNone, PyStr(<<>>), PyStr(<<"c1">>)}
WindowCids == {PyStr(<<"c1">>)}
Uuids == {<<"uuid-1">>}
ProviderErrors == {"429 quota exceeded", "400 API key not valid"}

Texts == {TextAbsent, TextRaises, TextValue(PyNone), TextValue(PyObj),
          TextValue(PyStr(<<>>)), TextValue(PyStr(<<" ">>)),
          TextValue(PyStr(<<"hi">>)), TextValue(PyStr(<<" ", "hi", " ">>))}
Candidates == {CandAbsent, CandEmpty, CandObject,
               CandDict(PyNone, PyNone), CandDict(PyStr(<<"c">>), PyNone),
               CandDict(PyNone, PyStr(<<"o">>)), CandDict(PyObj, PyNone)}
GenShapes == {[text |-> t, candidates |-> c] : t \in Texts, c \in Candidates}
HealthShapes == {[text |-> TextValue(PyStr(<<"ok", " ">>)), candidates |-> CandAbsent],
                 [text |-> TextValue(PyObj), candidates |-> CandAbsent],
                 [text |-> TextRaises, candidates |-> CandAbsent],
                 [text |-> TextAbsent, candidates |-> CandAbsent],
                 [text |-> TextAbsent, candidates |-> CandObject],
                 [text |-> TextAbsent, candidates |-> CandDict(PyStr(<<"ok">>), PyNone)]}
PlainShapes == {[text |-> TextValue(PyStr(<<"hi">>)), candidates |-> CandAbsent]}

\* ------------------------------------------------------------ specifications
\* The service from an empty store, with or without a store handle and a key.
Init ==
    /\ db \in {"present", "none"}
    /\ GEMINI_API_KEY \in BOOLEAN
    /\ store = <<>>
    /\ contact_queries = 0
    /\ now = 0
    /\ req = [s \in Slots |-> Idle]

Next ==
    \E s \in Slots :
        \/ Start(s, Messages, {}, CidInputs, Uuids, MaxClock)
        \/ Read(s)
        \/ ReadFail(s)
        \/ Generate(s, GenShapes)
        \/ GenerateFail(s, ProviderErrors)
        \/ Commit(s)
        \/ WriteFail(s)
        \/ Respond(s)
        \/ Root(s, HealthShapes, ProviderErrors)
        \/ Contact(s)

Spec == Init /\ [][Next]_vars

\* The chat endpoint alone, on one conversation, with the store available and
\* the generation call returning plain text.
InitWindow ==
    /\ db = "present"
    /\ GEMINI_API_KEY = TRUE
    /\ store = <<>>
    /\ contact_queries = 0
    /\ now = 0
    /\ req = [s \in Slots |-> Idle]

NextWindow ==
    \E s \in Slots :
        \/ Start(s, WindowMessages, MarkedMessages, WindowCids, Uuids, MaxWindowClock)
        \/ Read(s)
        \/ Generate(s, PlainShapes)
        \/ Commit(s)
        \/ Respond(s)

SpecWindow == InitWindow /\ [][NextWindow]_vars

\* The context builder on any content of the store: documents of two
\* conversations, in any order, some with equal timestamps, some lacking a field.
CtxDocs ==
    {[conversation_id |-> <<"c1">>, user_message |-> PyStr(<<"m1">>),
      ai_response |-> PyStr(<<"hi">>), timestamp |-> IsoFormat(2)],
     [conversation_id |-> <<"c1">>, ai_response |-> PyStr(<<"ok">>), timestamp |-> IsoFormat(3)],
     [conversation_id |-> <<"c1">>, user_message |-> PyStr(<<"m3">>), timestamp |-> IsoFormat(3)],
     [conversation_id |-> <<"c2">>, user_message |-> PyStr(<<"m4">>),
      ai_response |-> PyStr(<<"no">>), timestamp |-> IsoFormat(1)]}

\* The sequences over S of length at most n.
RECURSIVE SeqsUpTo(_, _)
SeqsUpTo(S, n) == IF n = 0 THEN {<<>>}
                  ELSE LET shorter == SeqsUpTo(S, n - 1)
                       IN  shorter \cup {Append(q, d) : q \in {x \in shorter : Len(x) = n - 1}, d \in S}

InitCtx ==
    /\ db = "present"
    /\ GEMINI_API_KEY = TRUE
    /\ store \in SeqsUpTo(CtxDocs, MaxDocs)
    /\ contact_queries = 0
    /\ now = 3
    /\ req = [s \in Slots |-> Idle]

NextCtx ==
    \/ Start(1, Messages, {}, WindowCids, Uuids, 4)
    \/ Read(1)
    \/ Generate(1, PlainShapes)

SpecCtx == InitCtx /\ [][NextCtx]_vars

\* ------------------------------------------------------------ for the claims
Chats == {s \in Slots : req[s].kind = "chat"}

\* The requests that have reached a terminal state.
Ended == {s \in Chats : req[s].pc \in {"responded", "failed"}}

\* The requests that have just handed their context to generate_content and
\* issued their insert.
Generated == {s \in Chats : req[s].pc = "writing"}

Min(a, b) == IF a < b THEN a ELSE b

\* How often x occurs in the sequence q.
Count(q, x) == Cardinality({i \in 1..Len(q) : q[i] = x})

\* The number a run of digit codes writes.
RECURSIVE Number(_)
Number(ds) == IF ds = <<>> THEN 0 ELSE 10 * Number(SubSeq(ds, 1, Len(ds) - 1)) + (ds[Len(ds)] - 48)

\* The instant a timestamp names, in microseconds (datetime.fromisoformat).
Instant(ts) == 1000000 * Number(SubSeq(ts, 1, 2))
               + (IF ts[3] = 46 THEN Number(SubSeq(ts, 4, 9)) ELSE 0)

\* What a stored turn's field contributes to a context line.
FieldText(h, k) == IF k \in DOMAIN h THEN Fmt(h[k]) ELSE <<>>

\* C1: the sequence passed to the generation call is the system prompt, then one
\* ("User: ..", "APX AI: ..") pair per retrieved turn, in order, then "User: "
\* with the request's message: 2k+2 elements for k retrieved turns, and exactly
\* [system_prompt, "User: {message}"] when the store holds no turn of the
\* conversation; a field a stored turn lacks contributes the empty string.
C1_ContextShape ==
    \A s \in Generated :
        LET ctx == req[s].conversation_context
            past == req[s].past_messages
            k == Len(past)
        IN  /\ Len(ctx) = 2 * k + 2
            /\ ctx[1] = system_prompt
            /\ ctx[Len(ctx)] = <<"User: ">> \o req[s].message
            /\ \A i \in 1..k :
                  /\ ctx[2 * i] = <<"User: ">> \o FieldText(past[i], "user_message")
                  /\ ctx[2 * i + 1] = <<"APX AI: ">> \o FieldText(past[i], "ai_response")
            /\ FindMongo(store, req[s].conversation_id) = {}
                  => ctx = <<system_prompt, <<"User: ">> \o req[s].message>>

\* C1's case: a context built over three or more turns, one lacking
\* user_message and one lacking ai_response.
C1_Witness ==
    \E s \in Generated :
        /\ Len(req[s].past_messages) >= 3
        /\ \E i \in 1..Len(req[s].past_messages) : "user_message" \notin DOMAIN req[s].past_messages[i]
        /\ \E i \in 1..Len(req[s].past_messages) : "ai_response" \notin DOMAIN req[s].past_messages[i]

\* The turns of conversation c in st.
TurnsOf(st, c) == {i \in 1..Len(st) : st[i].conversation_id = c}

\* The instants of the timestamps of a list of turns.
Instants(q) == [i \in 1..Len(q) |-> Instant(q[i].timestamp)]

\* How many turns of instant v the 5 latest of the turns T hold, at being the
\* turns' instants.
InWindow(at, T, v) ==
    LET here == Cardinality({i \in T : at[i] = v})
        room == 5 - Cardinality({i \in T : at[i] > v})
    IN  IF room <= 0 THEN 0 ELSE Min(here, room)

\* C2: the history read for a request on conversation c is exactly the min(n,5)
\* turns of c with the greatest timestamps, oldest first: it has min(n,5)
\* elements, each a stored turn of c, in ascending order of time, and of every
\* instant it holds as many turns as the 5 latest turns of c do.
C2_LatestFiveOldestFirst ==
    \A s \in Chats :
        req[s].pc \in {"ready", "writing"} =>
            LET past == req[s].past_messages
                c == req[s].conversation_id
                T == TurnsOf(store, c)
                at == Instants(store)
                pastAt == Instants(past)
            IN  /\ Len(past) = Min(Cardinality(T), 5)
                /\ \A i \in 1..Len(past) :
                      /\ past[i].conversation_id = c
                      /\ Count(past, past[i]) <= Count(store, past[i])
                /\ \A i, j \in 1..Len(past) : i < j => pastAt[i] <= pastAt[j]
                /\ \A v \in {at[i] : i \in T} : Count(pastAt, v) = InWindow(at, T, v)

\* C2's case: six or more turns of the conversation, stored out of time order,
\* and a history of five read from them that spans two instants.
C2_Witness ==
    \E s \in Chats :
        /\ req[s].pc = "ready"
        /\ Len(req[s].past_messages) = 5
        /\ Cardinality(TurnsOf(store, req[s].conversation_id)) >= 6
        /\ \E i, j \in TurnsOf(store, req[s].conversation_id) :
              i < j /\ Instant(store[i].timestamp) > Instant(store[j].timestamp)
        /\ req[s].past_messages[1].timestamp # req[s].past_messages[5].timestamp

\* C3: a request that supplies a conversation_id string, whatever the string,
\* works under exactly that id: the turn is stored under it and a 200 reply
\* carries it.
C3_SuppliedIdEchoed ==
    \A s \in Chats :
        req[s].cid_in.t = "str" =>
            /\ req[s].conversation_id = req[s].cid_in.s
            /\ req[s].pc = "responded" => req[s].body.conversation_id = req[s].cid_in.s

\* The requests that found the store unavailable: no handle, or a read that
\* failed.
StoreUnavailable == {s \in Chats : db = "none" \/ req[s].err = "read"}

\* C4: a request that finds the store unavailable (no handle, or a history read
\* that fails), and whose generation call and resolution do not fail, ends with
\* a 200 reply, having passed [system_prompt, "User: {message}"] to the
\* generation call and persisted nothing; it never ends Failed.
C4_StoreFailureNotFatal ==
    \A s \in StoreUnavailable \cap Ended :
        req[s].err \in {"none", "read"} =>
            /\ req[s].pc = "responded"
            /\ req[s].status = 200
            /\ req[s].conversation_context = <<system_prompt, <<"User: ">> \o req[s].message>>
            /\ req[s].commits = 0

\* The call sequences of one request: a read only with a store handle, then at
\* most one generation call, then at most one write.
CallOrders == IF db = "present"
              THEN {<<"read">>, <<"read", "generate">>, <<"read", "generate", "write">>}
              ELSE {<<>>, <<"generate">>}

\* C5 as the spec states it: every request that has ended has made exactly one
\* store read, at most one generation call and at most one store write, in
\* the order read, generate, write.
C5_ExactlyOneRead ==
    \A s \in Ended :
        /\ Count(req[s].ops, "read") = 1
        /\ req[s].ops \in {<<"read">>, <<"read", "generate">>, <<"read", "generate", "write">>}

\* C5, amended: a request makes exactly one store read when there is a store
\* handle and none when there is not, at most one generation call and at most
\* one store write, in the order read, generate, write; nothing is called
\* again after a failure, and a request that failed made no call after the one
\* that failed.
C5_CallsOnceInOrder ==
    \A s \in Chats :
        /\ req[s].ops \in CallOrders
        /\ Count(req[s].ops, "read") = (IF db = "present" THEN 1 ELSE 0)
        /\ req[s].commits <= Count(req[s].ops, "write")
        /\ req[s].err = "read" => req[s].ops = <<"read">>
        /\ req[s].err \in {"generate", "resolve"} => Count(req[s].ops, "write") = 0

\* C5's case: with a store handle, a request that ended Failed on its write,
\* after one read and one generation call, with nothing stored.
C5_Witness ==
    \E s \in Ended : /\ db = "present"
                      /\ req[s].err = "write"
                      /\ req[s].ops = <<"read", "generate", "write">>
                      /\ req[s].commits = 0

\* The requests whose generation result has been resolved to a text.
HasText == {s \in Chats : req[s].ai_text.t # "none"}

\* C6: whatever the generation result, the text the handler resolves is a
\* non-empty string.
C6_ResolvedTextNonEmptyString ==
    \A s \in HasText : req[s].ai_text.t = "str" /\ req[s].ai_text.s # <<>>

\* C7: no shape of the generation result makes the request end Failed: neither
\* the resolution nor the reply built from its text raises.
C7_ShapeNeverFails ==
    \A s \in Chats : ~(req[s].pc = "failed" /\ req[s].err \in {"resolve", "validate"})

\* The tokens of a reply's body.
BodyTokens(b) == {b.response[i] : i \in 1..Len(b.response)}
                 \cup {b.conversation_id[i] : i \in 1..Len(b.conversation_id)}
                 \cup {b.detail[i] : i \in 1..Len(b.detail)}
                 \cup {b.message[i] : i \in 1..Len(b.message)}

\* C9: no reply of any endpoint carries the text of a provider's error.
C9_NoProviderErrorInReply ==
    \A s \in Slots : BodyTokens(req[s].body) \cap ProviderErrors = {}

\* C10: a request that ends Failed has added no turn to the store.
C10_FailedAddsNothing ==
    \A s \in Chats : req[s].pc = "failed" => req[s].commits = 0

\* The turns this request was sent after the 200 reply to: those whose requests
\* had replied when it arrived, of its conversation, holding a response text.
Earlier(s) == {i \in req[s].seen : /\ store[i].conversation_id = req[s].conversation_id
                                   /\ store[i].ai_response.t = "str"}

\* The turns of turn i's conversation, in the store as request s read it, that
\* were stored after turn i.
StoredAfter(s, i) == {j \in (i + 1)..req[s].readLen :
                         store[j].conversation_id = store[i].conversation_id}

\* The other turns of turn i's conversation, in the store as request s read
\* it, whose timestamp is not less than turn i's.
NotOlder(s, i) == {j \in 1..req[s].readLen :
                      /\ j # i
                      /\ store[j].conversation_id = store[i].conversation_id
                      /\ ~StrLess(store[j].timestamp, store[i].timestamp)}

\* The context holds turn d's exchange before its last element: "User: m"
\* and right after it "APX AI: r".
HoldsExchange(ctx, d) ==
    \E p \in 2..(Len(ctx) - 2) : /\ ctx[p] = <<"User: ">> \o d.user_message.s
                                 /\ ctx[p + 1] = <<"APX AI: ">> \o d.ai_response.s

\* A request that has replied 200 has its turn in the store: its
\* conversation_id, its message and the response text it returned.
TurnStoredOnReply ==
    \A s \in Chats :
        req[s].pc = "responded" =>
            /\ req[s].docAt \in 1..Len(store)
            /\ store[req[s].docAt] = [conversation_id |-> req[s].body.conversation_id,
                                      user_message |-> PyStr(req[s].message),
                                      ai_response |-> PyStr(req[s].body.response),
                                      timestamp |-> req[s].timestamp]

\* C8 as the spec states it: a request B sent after the 200 reply to a request
\* A of the same conversation, with fewer than 5 further turns of the
\* conversation stored after A's, passes A's exchange to the generation call.
C8_LaterRequestSeesExchange ==
    \A s \in Generated :
        \A i \in Earlier(s) :
            Cardinality(StoredAfter(s, i)) < 5 => HoldsExchange(req[s].conversation_context, store[i])

\* C8, amended: A's turn is in the store when A's 200 reply is returned, and a
\* request B sent after that reply passes A's exchange to the generation call
\* when, in the store as B reads it, fewer than 5 other turns of the
\* conversation have a timestamp that is not less than that of A's turn.
C8_SeesExchangeUnlessFiveNotOlder ==
    /\ TurnStoredOnReply
    /\ \A s \in Generated :
          \A i \in Earlier(s) :
              Cardinality(NotOlder(s, i)) < 5 => HoldsExchange(req[s].conversation_context, store[i])

\* C8's case: B, with another message, has built its context after A's reply,
\* over a store of five or more turns, and holds A's exchange.
C8_Witness ==
    \E s \in Generated :
        \E i \in Earlier(s) :
            /\ store[i].user_message # PyStr(req[s].message)
            /\ req[s].readLen >= 5
            /\ Cardinality(NotOlder(s, i)) = 4
            /\ HoldsExchange(req[s].conversation_context, store[i])

====
